---- MODULE Spec2Model ----
(***************************************************************************)
(* Model of the datawrangling pipeline: loader.load_data, the indicator    *)
(* computations of indicators.py (compute_rsi, compute_sma) and the frame  *)
(* builder / serializer of jsonmaker.py (align_dataframes, build_frames,   *)
(* Frame.to_json, export_json, main).                                      *)
(*                                                                         *)
(* A DataFrame is a sequence of rows. Every row carries its index label    *)
(* (idx), so that rows stay distinguishable after filtering. Timestamps    *)
(* and prices are small naturals. Floating point results are kept as       *)
(* exact values [k, n, d]: k = "fin" is the rational n/d, k = "inf" is     *)
(* +infinity and k = "nan" is NaN.                                         *)
(***************************************************************************)
EXTENDS Integers, Sequences, FiniteSets, TLC

VARIABLES
    pc,            \* position of the run
    err,           \* the exception that ended the run, "none" otherwise
    csticksHeader,    \* header of the candlestick CSV selected in main
    indicatorsHeader, \* header of the indicator CSV selected in main
    dfCsticks,     \* main: dfCsticks (loaded rows)
    dfIndicators,  \* main: dfIndicators (loaded rows)
    frameIndicatorsWindow,  \* build_frames parameter
    frameTargetDistance,    \* build_frames parameter
    alCsticks,     \* build_frames: dfCsticks after align_dataframes
    alIndicators,  \* build_frames: dfIndicators after align_dataframes
    i,             \* cursor of build_frames / of export_json
    frames,        \* build_frames: frames; export_json: its argument
    out,           \* tokens written to the output file
    diag,          \* start times named by the "Skipping frame" messages
    close,         \* indicators.py: df['Close']
    periods,       \* indicators.py: periods argument
    rsi,           \* compute_rsi result: period -> column
    sma            \* compute_sma result: period -> column

vars == <<pc, err, csticksHeader, indicatorsHeader, dfCsticks, dfIndicators,
          frameIndicatorsWindow, frameTargetDistance, alCsticks, alIndicators,
          i, frames, out, diag, close, periods, rsi, sma>>

pipeVars == <<err, csticksHeader, indicatorsHeader, dfCsticks, dfIndicators,
              frameIndicatorsWindow, frameTargetDistance, alCsticks, alIndicators>>

indVars == <<close, periods, rsi, sma>>

----------------------------------------------------------------------------
(* Bounds of the model *)

\* longest candlestick table
MaxN == 3

\* longest indicator table
MaxM == 3

\* largest window size passed to build_frames
MaxW == 2

\* largest target distance passed to build_frames
MaxD == 1

\* timestamps that occur in the tables
Times == 1..3

\* longest list of frames handed to export_json directly
MaxFrames == 3

\* start times of the frames handed to export_json directly
StartTimes == 1..2

\* longest close series handed to the indicator computations
MaxLen == 4

\* largest lookback period handed to the indicator computations
MaxPeriod == 3

\* close prices of the series handed to the indicator computations
ClosePrices == 1..3

----------------------------------------------------------------------------
(* Helpers *)

Min(a, b) == IF a <= b THEN a ELSE b

Max(a, b) == IF a >= b THEN a ELSE b

SeqsUpTo(S, n) == UNION {[1..k -> S] : k \in 0..n}

\* df.iloc[k], k >= 0 (out of range raises IndexError: see LoopStep)
Iloc(df, k) == df[k + 1]

InRange(df, k) == k >= 0 /\ k < Len(df)

\* df.iloc[a:b] for 0 <= a: python slices clamp to the length
IlocSlice(df, a, b) == SubSeq(df, a + 1, Min(b, Len(df)))

----------------------------------------------------------------------------
(* Input files *)

\* columns main asks of a candlestick file (loader.REQUIRED_HEADERS)
CsticksHeader == {"Open Time", "Open", "High", "Low", "Close", "Volume"}

\* columns main asks of an indicator file
IndicatorsHeader == {"Open Time", "SMA14", "RSI14"}

\* a file comes with or without a 'Close Time' column
HeadersOf(required) == {required, required \cup {"Close Time"}}

\* close price of the row with index label k: 11, 13, 12, 14, 10, ...
ClosePrice(k) == 10 + ((k * k * k) % 5)

\* value of column c in the indicator row with index label k
IndicatorValue(c, k) ==
    IF c = "RSI14" THEN 50 + k ELSE IF c = "SMA14" THEN 10 + k ELSE 100 + k

CsticksRows ==
    {[k \in 1..Len(ts) |-> [idx |-> k, t |-> ts[k], close |-> ClosePrice(k)]] :
        ts \in SeqsUpTo(Times, MaxN)}

\* rows of an indicator table: every column but 'Open Time' is a value
IndicatorRows(header) ==
    {[k \in 1..Len(ts) |->
        [idx |-> k, t |-> ts[k],
         values |-> [c \in header \ {"Open Time"} |-> IndicatorValue(c, k)]]] :
        ts \in SeqsUpTo(Times, MaxM)}

\* a CSV file: its header and its rows
CsticksFiles == [header : HeadersOf(CsticksHeader), rows : CsticksRows]

IndicatorFiles ==
    UNION {[header : {h}, rows : IndicatorRows(h)] : h \in HeadersOf(IndicatorsHeader)}

----------------------------------------------------------------------------
(* loader.load_data *)

\* df['Close Time'] = pd.to_datetime(df['Close Time']) raises KeyError when the
\* table has no such column
LoadRaises(header) == "Close Time" \notin header

load_data(file) == file.rows

----------------------------------------------------------------------------
(* jsonmaker.align_dataframes *)

\* df1.merge(df2, on=columnName, how='inner'): the joined pairs of rows
InnerMerge(df1, df2) ==
    {p \in (1..Len(df1)) \X (1..Len(df2)) : df1[p[1]].t = df2[p[2]].t}

\* variant: the merge keeps every row of df1 (how='left')
CommonKeys_Left(df1, df2) == {df1[k].t : k \in 1..Len(df1)}

\* common[columnName]
CommonKeys(df1, df2) == {df1[p[1]].t : p \in InnerMerge(df1, df2)}

\* variant: the isin filter left out
FilterIsin_None(df, keys) == df

\* df[df[columnName].isin(keys)]
FilterIsin(df, keys) ==
    LET Keep(r) == r.t \in keys IN SelectSeq(df, Keep)

align_dataframes(df1, df2) ==
    LET common == CommonKeys(df1, df2)
    IN  <<FilterIsin(df1, common), FilterIsin(df2, common)>>

----------------------------------------------------------------------------
(* jsonmaker.dataframe_to_indicators, build_frames *)

\* Indicators(timestamp, values) of one row
RowToIndicator(row) == [timestamp |-> row.t, values |-> row.values]

dataframe_to_indicators(df) == [k \in 1..Len(df) |-> RowToIndicator(df[k])]

\* variant: the target bar one row too far
TargetIndex_NoMinusOne(c, w, d) == c + w + d

\* index of the target bar
TargetIndex(c, w, d) == c + w + d - 1

\* (endPrice - startPrice) / startPrice
Target(startPrice, endPrice) == [k |-> "fin", n |-> endPrice - startPrice, d |-> startPrice]

\* variant: the loop bound without its + 1
LoopCond_NoPlusOne(n, w, d, c) == c < n - w - d

\* while i < len(dfCsticks) - frameIndicatorsWindow - frameTargetDistance + 1
LoopCond(n, w, d, c) == c < n - w - d + 1

\* variant: a window one row short
WindowIndicators_Short(inds, c, w) == IlocSlice(inds, c, c + w - 1)

\* df.iloc[i:i + frameIndicatorsWindow]
WindowIndicators(inds, c, w) == IlocSlice(inds, c, c + w)

\* the Frame built at cursor c
FrameAt(bars, inds, w, d, c) ==
    [startTime |-> Iloc(bars, c).t,
     frameIndicatorsWindow |-> w,
     frameTargetDistance |-> d,
     frameTargetTimestamp |-> Iloc(bars, TargetIndex(c, w, d)).t,
     indicators |-> dataframe_to_indicators(WindowIndicators(inds, c, w)),
     target |-> Target(Iloc(bars, c).close, Iloc(bars, TargetIndex(c, w, d)).close)]

----------------------------------------------------------------------------
(* jsonmaker.Indicators.is_empty, Frame.to_json, export_json *)

is_empty(indicator) == DOMAIN indicator.values = {}

\* variant: to_json without its check for empty indicators
to_json_NoCheck(frame) == <<[tok |-> "obj", frame |-> frame]>>

\* Frame.to_json: "" (no token) for a frame with an empty indicator, else the
\* text of one JSON object
to_json(frame) ==
    IF \E k \in 1..Len(frame.indicators) : is_empty(frame.indicators[k])
    THEN <<>>
    ELSE <<[tok |-> "obj", frame |-> frame]>>

Tok(s) == [tok |-> s]

\* what one iteration of export_json writes for frames[c + 1]
ExportWrite(fs, c) ==
    LET txt == to_json(fs[c + 1])
    IN  IF txt # <<>>
        THEN IF c = Len(fs) - 1 THEN txt ELSE txt \o <<Tok(",")>>
        ELSE <<>>

\* what one iteration of export_json prints
ExportDiag(fs, c) ==
    IF to_json(fs[c + 1]) # <<>> THEN <<>> ELSE <<fs[c + 1].startTime>>

----------------------------------------------------------------------------
(* The run of jsonmaker.main *)

Init ==
    /\ pc = "main"
    /\ err = "none"
    /\ csticksHeader = {}
    /\ indicatorsHeader = {}
    /\ dfCsticks = <<>>
    /\ dfIndicators = <<>>
    /\ frameIndicatorsWindow = 0
    /\ frameTargetDistance = 0
    /\ alCsticks = <<>>
    /\ alIndicators = <<>>
    /\ i = 0
    /\ frames = <<>>
    /\ out = <<>>
    /\ diag = <<>>
    /\ close = <<>>
    /\ periods = <<>>
    /\ rsi = <<>>
    /\ sma = <<>>

\* main: dfCsticks = loader.load_data(filenameCandlestickData)
LoadCsticks ==
    /\ pc = "main"
    /\ \E file \in CsticksFiles :
        /\ csticksHeader' = file.header
        /\ IF LoadRaises(file.header)
           THEN pc' = "error" /\ err' = "KeyError" /\ dfCsticks' = dfCsticks
           ELSE pc' = "loadIndicators" /\ err' = err /\ dfCsticks' = load_data(file)
    /\ UNCHANGED <<indicatorsHeader, dfIndicators, frameIndicatorsWindow,
                   frameTargetDistance, alCsticks, alIndicators, i, frames, out, diag>>
    /\ UNCHANGED indVars

\* main: dfIndicators = loader.load_data(filenameIndicators)
LoadIndicators ==
    /\ pc = "loadIndicators"
    /\ \E file \in IndicatorFiles :
        /\ indicatorsHeader' = file.header
        /\ IF LoadRaises(file.header)
           THEN pc' = "error" /\ err' = "KeyError" /\ dfIndicators' = dfIndicators
           ELSE pc' = "build" /\ err' = err /\ dfIndicators' = load_data(file)
    /\ UNCHANGED <<csticksHeader, dfCsticks, frameIndicatorsWindow,
                   frameTargetDistance, alCsticks, alIndicators, i, frames, out, diag>>
    /\ UNCHANGED indVars

\* build_frames up to its loop: i = 0, frames = [], align_dataframes
BuildStart ==
    /\ pc = "build"
    /\ \E w \in 1..MaxW, d \in 0..MaxD :
        /\ frameIndicatorsWindow' = w
        /\ frameTargetDistance' = d
    /\ alCsticks' = align_dataframes(dfCsticks, dfIndicators)[1]
    /\ alIndicators' = align_dataframes(dfCsticks, dfIndicators)[2]
    /\ i' = 0
    /\ frames' = <<>>
    /\ pc' = "loop"
    /\ UNCHANGED <<err, csticksHeader, indicatorsHeader, dfCsticks, dfIndicators, out, diag>>
    /\ UNCHANGED indVars

\* one iteration of the while loop of build_frames
LoopStep ==
    /\ pc = "loop"
    /\ LoopCond(Len(alCsticks), frameIndicatorsWindow, frameTargetDistance, i)
    /\ IF /\ InRange(alCsticks, i)
          /\ InRange(alCsticks, TargetIndex(i, frameIndicatorsWindow, frameTargetDistance))
       THEN /\ frames' = Append(frames, FrameAt(alCsticks, alIndicators,
                                    frameIndicatorsWindow, frameTargetDistance, i))
            /\ i' = i + 1
            /\ UNCHANGED <<pc, err>>
       ELSE /\ pc' = "error"
            /\ err' = "IndexError"
            /\ UNCHANGED <<i, frames>>
    /\ UNCHANGED <<csticksHeader, indicatorsHeader, dfCsticks, dfIndicators,
                   frameIndicatorsWindow, frameTargetDistance, alCsticks, alIndicators,
                   out, diag>>
    /\ UNCHANGED indVars

\* the loop condition fails: return frames; main goes on to export_json, which
\* opens the file and writes "[\n"
LoopExit ==
    /\ pc = "loop"
    /\ ~LoopCond(Len(alCsticks), frameIndicatorsWindow, frameTargetDistance, i)
    /\ pc' = "export"
    /\ i' = 0
    /\ out' = <<Tok("[")>>
    /\ UNCHANGED <<frames, diag>>
    /\ UNCHANGED pipeVars
    /\ UNCHANGED indVars

\* one iteration of the while loop of export_json
ExportStep ==
    /\ pc = "export"
    /\ i < Len(frames)
    /\ out' = out \o ExportWrite(frames, i)
    /\ diag' = diag \o ExportDiag(frames, i)
    /\ i' = i + 1
    /\ UNCHANGED <<pc, frames>>
    /\ UNCHANGED pipeVars
    /\ UNCHANGED indVars

\* export_json: f.write("]\n") and the end of main
ExportEnd ==
    /\ pc = "export"
    /\ ~(i < Len(frames))
    /\ out' = Append(out, Tok("]"))
    /\ pc' = "done"
    /\ UNCHANGED <<i, frames, diag>>
    /\ UNCHANGED pipeVars
    /\ UNCHANGED indVars

Next ==
    \/ LoadCsticks
    \/ LoadIndicators
    \/ BuildStart
    \/ LoopStep
    \/ LoopExit
    \/ ExportStep
    \/ ExportEnd

Spec == Init /\ [][Next]_vars

----------------------------------------------------------------------------
(* export_json called on an arbitrary list of frames *)

IndicatorsEmpty(ts) == [timestamp |-> ts, values |-> [c \in {} |-> 0]]

IndicatorsFull(ts) == [timestamp |-> ts, values |-> [c \in {"RSI14"} |-> 55]]

\* windows of one or two snapshots, each with or without values
ExportWindows ==
    {[k \in 1..n |-> IF k \in full THEN IndicatorsFull(k) ELSE IndicatorsEmpty(k)] :
        <<n, full>> \in {q \in (1..2) \X SUBSET (1..2) : q[2] \subseteq 1..q[1]}}

ExportFrames ==
    {[startTime |-> s,
      frameIndicatorsWindow |-> Len(win),
      frameTargetDistance |-> 1,
      frameTargetTimestamp |-> s + Len(win),
      indicators |-> win,
      target |-> Target(100, 101)] : s \in StartTimes, win \in ExportWindows}

\* export_json(frames, filename) has opened the file and written "[\n"
InitExport ==
    /\ pc = "export"
    /\ err = "none"
    /\ csticksHeader = {}
    /\ indicatorsHeader = {}
    /\ dfCsticks = <<>>
    /\ dfIndicators = <<>>
    /\ frameIndicatorsWindow = 0
    /\ frameTargetDistance = 0
    /\ alCsticks = <<>>
    /\ alIndicators = <<>>
    /\ i = 0
    /\ frames \in SeqsUpTo(ExportFrames, MaxFrames)
    /\ out = <<Tok("[")>>
    /\ diag = <<>>
    /\ close = <<>>
    /\ periods = <<>>
    /\ rsi = <<>>
    /\ sma = <<>>

NextExport ==
    \/ ExportStep
    \/ ExportEnd

SpecExport == InitExport /\ [][NextExport]_vars

----------------------------------------------------------------------------
(* indicators.compute_rsi, compute_sma *)

NaN == [k |-> "nan", n |-> 0, d |-> 1]

Inf == [k |-> "inf", n |-> 1, d |-> 0]

Fin(n, d) == [k |-> "fin", n |-> n, d |-> d]

\* df['Close'].diff()
Diff(c) == [k \in 1..Len(c) |-> IF k = 1 THEN NaN ELSE Fin(c[k] - c[k - 1], 1)]

\* delta.where(delta > 0, 0): a NaN delta fails the comparison
WhereGain(delta) ==
    [k \in 1..Len(delta) |->
        IF delta[k].k = "fin" /\ delta[k].n > 0 THEN delta[k] ELSE Fin(0, 1)]

\* -delta.where(delta < 0, 0)
WhereLoss(delta) ==
    [k \in 1..Len(delta) |->
        IF delta[k].k = "fin" /\ delta[k].n < 0 THEN Fin(-delta[k].n, 1) ELSE Fin(0, 1)]

RECURSIVE SumN(_, _, _)
\* s[a].n + ... + s[b].n
SumN(s, a, b) == IF a > b THEN 0 ELSE s[b].n + SumN(s, a, b - 1)

\* variant: the rolling mean with min_periods=1
RollingMean_MinPeriods1(s, window) ==
    [k \in 1..Len(s) |->
        LET a == Max(1, k - window + 1)
        IN  IF \E j \in a..k : s[j].k # "fin"
            THEN NaN
            ELSE Fin(SumN(s, a, k), k - a + 1)]

\* s.rolling(window=window).mean() over a column of whole numbers: NaN until
\* the window holds `window` observations
RollingMean(s, window) ==
    [k \in 1..Len(s) |->
        IF k < window \/ \E j \in (k - window + 1)..k : s[j].k # "fin"
        THEN NaN
        ELSE Fin(SumN(s, k - window + 1, k), window)]

\* a / b in floating point, for a >= 0 and b >= 0
FDiv(a, b) ==
    IF a.k = "nan" \/ b.k = "nan" THEN NaN
    ELSE IF b.n = 0 THEN (IF a.n = 0 THEN NaN ELSE Inf)
    ELSE Fin(a.n * b.d, a.d * b.n)

\* 1 + x
OnePlus(x) ==
    IF x.k = "fin" THEN Fin(x.d + x.n, x.d) ELSE x

\* 100 / x, for x >= 1
HundredOver(x) ==
    IF x.k = "nan" THEN NaN
    ELSE IF x.k = "inf" THEN Fin(0, 1)
    ELSE Fin(100 * x.d, x.n)

\* 100 - x, for finite or NaN x
HundredMinus(x) ==
    IF x.k = "fin" THEN Fin(100 * x.d - x.n, x.d) ELSE NaN

\* the RSI column of one period
RsiColumn(c, period) ==
    LET delta == Diff(c)
        gain == RollingMean(WhereGain(delta), period)
        loss == RollingMean(WhereLoss(delta), period)
    IN  [k \in 1..Len(c) |-> HundredMinus(HundredOver(OnePlus(FDiv(gain[k], loss[k]))))]

\* the SMA column of one period
SmaColumn(c, period) ==
    RollingMean([k \in 1..Len(c) |-> Fin(c[k], 1)], period)

PeriodSet(ps) == {ps[k] : k \in 1..Len(ps)}

compute_rsi(c, ps) == [p \in PeriodSet(ps) |-> RsiColumn(c, p)]

compute_sma(c, ps) == [p \in PeriodSet(ps) |-> SmaColumn(c, p)]

\* lists of one or two different periods
PeriodLists ==
    {ps \in SeqsUpTo(1..MaxPeriod, 2) : Len(ps) >= 1 /\ Cardinality(PeriodSet(ps)) = Len(ps)}

\* indicators.main has loaded df
InitInd ==
    /\ pc = "indicators"
    /\ err = "none"
    /\ csticksHeader = {}
    /\ indicatorsHeader = {}
    /\ dfCsticks = <<>>
    /\ dfIndicators = <<>>
    /\ frameIndicatorsWindow = 0
    /\ frameTargetDistance = 0
    /\ alCsticks = <<>>
    /\ alIndicators = <<>>
    /\ i = 0
    /\ frames = <<>>
    /\ out = <<>>
    /\ diag = <<>>
    /\ close \in SeqsUpTo(ClosePrices, MaxLen)
    /\ periods \in PeriodLists
    /\ rsi = <<>>
    /\ sma = <<>>

\* rsi = compute_rsi(df, periods)
ComputeRsi ==
    /\ pc = "indicators"
    /\ rsi' = compute_rsi(close, periods)
    /\ pc' = "rsi"
    /\ UNCHANGED <<close, periods, sma, i, frames, out, diag>>
    /\ UNCHANGED pipeVars

\* sma = compute_sma(df, periods)
ComputeSma ==
    /\ pc = "rsi"
    /\ sma' = compute_sma(close, periods)
    /\ pc' = "sma"
    /\ UNCHANGED <<close, periods, rsi, i, frames, out, diag>>
    /\ UNCHANGED pipeVars

NextInd ==
    \/ ComputeRsi
    \/ ComputeSma

SpecInd == InitInd /\ [][NextInd]_vars

\* the single-threaded run goes on until it ends
SpecLive == Spec /\ WF_vars(Next)

----------------------------------------------------------------------------
(* Properties *)

\* build_frames has aligned its inputs
Aligned == pc \in {"loop", "export", "done"}

\* the number of aligned candlestick rows
NRows == Len(alCsticks)

FrameCount == Max(0, NRows - frameIndicatorsWindow - frameTargetDistance + 1)

KeysOf(df) == [k \in 1..Len(df) |-> df[k].t]

StrictlyIncreasing(df) == \A k \in 1..(Len(df) - 1) : df[k].t < df[k + 1].t

\* the output rows are rows of the input, in the input's order
KeepsOrder(output, input) ==
    /\ \A k \in 1..Len(output) :
        output[k].idx \in 1..Len(input) /\ input[output[k].idx] = output[k]
    /\ \A k \in 1..(Len(output) - 1) : output[k].idx < output[k + 1].idx

IsObj(t) == t.tok = "obj"

FrameInvalid(f) == \E k \in 1..Len(f.indicators) : DOMAIN f.indicators[k].values = {}

FrameValid(f) == ~FrameInvalid(f)

\* the text is "[" obj ("," obj)* "]" or "[" "]"
ValidArray(o) ==
    /\ Len(o) >= 2
    /\ o[1].tok = "["
    /\ o[Len(o)].tok = "]"
    /\ Len(o) > 2 => (Len(o) - 2) % 2 = 1
    /\ \A k \in 2..(Len(o) - 1) : o[k].tok = (IF k % 2 = 0 THEN "obj" ELSE ",")

\* C1: for every list of frames handed to export_json, valid and invalid
\* frames mixed in any positions, the finished text is a syntactically valid
\* array: no comma stands between the last object and the closing bracket.
C1_NoTrailingComma == pc = "done" => ValidArray(out)

\* C2: build_frames terminates, emits max(0, n - w - d + 1) frames over n
\* aligned rows, and its cursor advances by exactly 1 per emitted frame.
C2_FrameCount ==
    /\ [](pc = "loop" => Len(frames) = i /\ i <= FrameCount)
    /\ [](pc \in {"export", "done"} => Len(frames) = FrameCount)
    /\ [](~(pc = "error" /\ err = "IndexError"))
    /\ [][pc = "loop" /\ pc' = "loop" => i' = i + 1 /\ Len(frames') = Len(frames) + 1]_vars
    /\ (pc = "loop" ~> pc = "export")

C2_Witness ==
    /\ pc = "export"
    /\ Len(frames) = 2
    /\ frameIndicatorsWindow = 1
    /\ frameTargetDistance = 1
    /\ NRows = 3

\* C3: frame k of build_frames has target_evolution
\* (close[k+w+d-1] - close[k]) / close[k], start = open_time of aligned bar k
\* and target_time = open_time of aligned bar k+w+d-1, an index that is always
\* inside the aligned bar series (k counted from 0).
C3_Target ==
    /\ err # "IndexError"
    /\ Aligned =>
        \A k \in 0..(Len(frames) - 1) :
            LET f == frames[k + 1]
                e == k + frameIndicatorsWindow + frameTargetDistance - 1
            IN  /\ e >= 0 /\ e < NRows
                /\ f.startTime = alCsticks[k + 1].t
                /\ f.frameTargetTimestamp = alCsticks[e + 1].t
                /\ f.target.k = "fin"
                /\ f.target.d # 0
                /\ f.target.n * alCsticks[k + 1].close =
                      (alCsticks[e + 1].close - alCsticks[k + 1].close) * f.target.d

C3_Witness ==
    /\ pc = "done"
    /\ Len(frames) = 2
    /\ frameTargetDistance = 1
    /\ frames[2].target.n < 0
    /\ frames[1].target.n > 0
    /\ frames[1].startTime # frames[1].frameTargetTimestamp

\* C4 as claimed: for all pairs of tables, align_dataframes returns two tables
\* of equal length with identical key columns, every returned key present in
\* both inputs, each output in the order of its input.
C4_AlignAllPairs ==
    Aligned =>
        /\ Len(alCsticks) = Len(alIndicators)
        /\ KeysOf(alCsticks) = KeysOf(alIndicators)
        /\ \A k \in 1..Len(alCsticks) :
            \E a \in 1..Len(dfCsticks), b \in 1..Len(dfIndicators) :
                dfCsticks[a].t = alCsticks[k].t /\ dfIndicators[b].t = alCsticks[k].t
        /\ KeepsOrder(alCsticks, dfCsticks)
        /\ KeepsOrder(alIndicators, dfIndicators)

\* C4 amended: for all pairs of tables, every returned key is present in both
\* inputs, the two outputs hold the same set of keys and each output keeps the
\* order of its input; when both key columns are strictly increasing, the
\* outputs also have equal length and identical key columns.
C4_AlignIncreasing ==
    Aligned =>
        /\ \A k \in 1..Len(alCsticks) :
            \E a \in 1..Len(dfCsticks), b \in 1..Len(dfIndicators) :
                dfCsticks[a].t = alCsticks[k].t /\ dfIndicators[b].t = alCsticks[k].t
        /\ \A k \in 1..Len(alIndicators) :
            \E a \in 1..Len(dfCsticks), b \in 1..Len(dfIndicators) :
                dfCsticks[a].t = alIndicators[k].t /\ dfIndicators[b].t = alIndicators[k].t
        /\ {alCsticks[k].t : k \in 1..Len(alCsticks)} =
              {alIndicators[k].t : k \in 1..Len(alIndicators)}
        /\ KeepsOrder(alCsticks, dfCsticks)
        /\ KeepsOrder(alIndicators, dfIndicators)
        /\ (StrictlyIncreasing(dfCsticks) /\ StrictlyIncreasing(dfIndicators)) =>
              /\ Len(alCsticks) = Len(alIndicators)
              /\ KeysOf(alCsticks) = KeysOf(alIndicators)

C4_Witness ==
    /\ pc = "loop"
    /\ StrictlyIncreasing(dfCsticks)
    /\ StrictlyIncreasing(dfIndicators)
    /\ Len(dfCsticks) = 3
    /\ Len(dfIndicators) = 2
    /\ Len(alCsticks) = 2
    /\ Len(alIndicators) = 2
    /\ alCsticks[1].idx = 2
    /\ alIndicators[1].idx = 1

\* C5: export_json writes no object and no placeholder for a frame that has
\* a snapshot with an empty value mapping, names that frame's start time in
\* a diagnostic and goes on with the later frames: the objects written are
\* exactly the valid frames, in input order.
C5_InvalidDropped ==
    pc \in {"export", "done"} =>
        LET seen == SubSeq(frames, 1, i)
            objs == SelectSeq(out, IsObj)
            valid == SelectSeq(seen, FrameValid)
            invalid == SelectSeq(seen, FrameInvalid)
        IN  /\ i <= Len(frames)
            /\ pc = "done" => i = Len(frames)
            /\ Len(objs) = Len(valid)
            /\ \A k \in 1..Len(objs) : objs[k].frame = valid[k]
            /\ Len(diag) = Len(invalid)
            /\ \A k \in 1..Len(diag) : diag[k] = invalid[k].startTime

C5_Witness ==
    /\ pc = "done"
    /\ Len(frames) = 3
    /\ FrameValid(frames[1])
    /\ FrameInvalid(frames[2])
    /\ FrameValid(frames[3])
    /\ diag = <<frames[2].startTime>>
    /\ Len(SelectSeq(out, IsObj)) = 2

\* C6: a run whose alignment is empty, or non-empty with fewer than w + d
\* rows, ends in a fatal error (a different one in each case) and never
\* completes normally with an empty frame list.
C6_EmptyAlignmentFatal ==
    pc = "done" =>
        /\ alCsticks # <<>>
        /\ NRows >= frameIndicatorsWindow + frameTargetDistance
        /\ frames # <<>>

\* ---- indicators

RECURSIVE SumClose(_, _, _)
SumClose(c, a, b) == IF a > b THEN 0 ELSE c[a] + SumClose(c, a + 1, b)

\* no close of the window ending at k is below the close before it
NoLossIn(c, period, k) == \A j \in (k - period + 1)..k : j >= 2 => c[j] >= c[j - 1]

\* C7: at every position with a full trailing window of `period` deltas
\* whose average loss is zero, compute_rsi yields exactly 100, never NaN; the
\* all-flat series included.
C7_RsiZeroLoss ==
    pc \in {"rsi", "sma"} =>
        \A p \in PeriodSet(periods) : \A k \in (p + 1)..Len(close) :
            NoLossIn(close, p, k) =>
                rsi[p][k].k = "fin" /\ rsi[p][k].n = 100 * rsi[p][k].d

\* C8: for every period >= 1 and every series, the SMA column has the length
\* of the input, its first period - 1 entries are undefined (NaN, not zero)
\* and entry k is the mean of close[k-period+1 .. k].
C8_SmaTrailingMean ==
    pc = "sma" =>
        \A p \in PeriodSet(periods) :
            /\ Len(sma[p]) = Len(close)
            /\ \A k \in 1..Len(close) :
                IF k < p
                THEN sma[p][k].k = "nan"
                ELSE /\ sma[p][k].k = "fin"
                     /\ sma[p][k].d > 0
                     /\ sma[p][k].n * p = SumClose(close, k - p + 1, k) * sma[p][k].d

C8_Witness ==
    /\ pc = "sma"
    /\ close = <<1, 3, 2, 3>>
    /\ periods = <<3, 1>>
    /\ sma[3][2].k = "nan"
    /\ sma[3][4].k = "fin"
    /\ sma[3][4].n * 3 = 8 * sma[3][4].d

\* C9: load_data converts only the time columns that are present, so the
\* indicator table written by the indicator stage (keyed by 'Open Time', one
\* column per indicator, no 'Close Time') loads without error and reaches
\* build_frames as dfIndicators.
C9_IndicatorTableLoads ==
    indicatorsHeader = IndicatorsHeader => ~(pc = "error" /\ err = "KeyError")

\* C10 as claimed: the frame emitted at cursor c carries exactly windowSize
\* snapshots, snapshot j being aligned indicator row c + j: its timestamp and
\* the mapping of all its other columns.
C10_WindowExact ==
    Aligned =>
        \A c \in 0..(Len(frames) - 1) :
            LET f == frames[c + 1] IN
            /\ Len(f.indicators) = frameIndicatorsWindow
            /\ \A j \in 0..(frameIndicatorsWindow - 1) :
                /\ c + j < Len(alIndicators)
                /\ f.indicators[j + 1].timestamp = alIndicators[c + j + 1].t
                /\ f.indicators[j + 1].values = alIndicators[c + j + 1].values

\* C10 amended: the frame emitted at cursor c carries the aligned indicator
\* rows c .. c + windowSize - 1 that exist, in row order, each as its
\* timestamp and the mapping of all its other columns; they are exactly
\* windowSize when the aligned indicator table has at least as many rows as
\* the aligned candlestick table (as it has when no timestamp repeats in
\* the candlestick table).
C10_WindowRows ==
    Aligned =>
        \A c \in 0..(Len(frames) - 1) :
            LET f == frames[c + 1]
                have == Min(frameIndicatorsWindow, Max(0, Len(alIndicators) - c))
            IN
            /\ Len(f.indicators) = have
            /\ \A j \in 0..(have - 1) :
                /\ f.indicators[j + 1].timestamp = alIndicators[c + j + 1].t
                /\ f.indicators[j + 1].values = alIndicators[c + j + 1].values
            /\ Len(alIndicators) >= NRows => have = frameIndicatorsWindow
            /\ (\A a, b \in 1..Len(dfCsticks) : a # b => dfCsticks[a].t # dfCsticks[b].t)
                  => have = frameIndicatorsWindow

C10_Witness ==
    /\ pc = "done"
    /\ frameIndicatorsWindow = 2
    /\ Len(frames) = 2
    /\ Len(alIndicators) = 3
    /\ Len(frames[2].indicators) = 2
    /\ frames[2].indicators[2].values # frames[2].indicators[1].values
    /\ DOMAIN frames[2].indicators[2].values = {"RSI14", "SMA14", "Close Time"}

\* C11: when both inputs of build_frames have strictly increasing timestamps,
\* every emitted frame is time-consistent: its first snapshot carries the
\* frame's start time, snapshot j carries the open_time of aligned bar i + j,
\* target_time is not earlier than the last snapshot's timestamp (strictly
\* later when targetDistance >= 1), and frames are emitted in strictly
\* increasing order of start time.
C11_TimeConsistent ==
    (Aligned /\ StrictlyIncreasing(dfCsticks) /\ StrictlyIncreasing(dfIndicators)) =>
        /\ \A c \in 0..(Len(frames) - 1) :
            LET f == frames[c + 1]
                n == Len(f.indicators)
            IN  /\ n = frameIndicatorsWindow
                /\ f.indicators[1].timestamp = f.startTime
                /\ \A j \in 0..(n - 1) :
                    f.indicators[j + 1].timestamp = alCsticks[c + j + 1].t
                /\ f.frameTargetTimestamp >= f.indicators[n].timestamp
                /\ frameTargetDistance >= 1 =>
                      f.frameTargetTimestamp > f.indicators[n].timestamp
        /\ \A c \in 1..(Len(frames) - 1) : frames[c].startTime < frames[c + 1].startTime

C11_Witness ==
    /\ pc = "done"
    /\ StrictlyIncreasing(dfCsticks)
    /\ StrictlyIncreasing(dfIndicators)
    /\ Len(dfCsticks) = 3
    /\ Len(dfIndicators) = 3
    /\ frameIndicatorsWindow = 1
    /\ frameTargetDistance = 1
    /\ Len(frames) = 2
    /\ frames[1].startTime = 1
    /\ frames[1].frameTargetTimestamp = 2
    /\ frames[2].startTime = 2
    /\ frames[2].indicators[1].timestamp = 2

====
